---- MODULE Spec2Model ----
(***************************************************************************)
(* Model of the training-attendance API (src/main.py, src/db.py,           *)
(* src/seed.py): the member / facility / location directory, the           *)
(* attendance ledger and the POST /scan decision logic.                    *)
(*                                                                         *)
(* Representation                                                          *)
(*  - a string is a sequence of lexemes (one-character strings for names   *)
(*    and phones; for scan codes also multi-character pieces that contain  *)
(*    no delimiter), so strip / lower / digit filtering / URL parsing are  *)
(*    computed, not assumed;                                               *)
(*  - a timestamp is a datetime: its wall-clock reading, counted in ticks  *)
(*    since the epoch (TicksPerSecond ticks in a second), and its tzinfo,  *)
(*    Naive or the offset from UTC in ticks; the zone of the server is UTC;*)
(*  - a date (promotion_start_date, the day of a report) is <<year, month, *)
(*    day>>;                                                               *)
(*  - Python None is None ("None"), NoPhone (<<"None">>) or NoTime (-1),   *)
(*    according to the type of the optional value;                         *)
(*  - the free-text columns that no decision reads (address, belt_rank,    *)
(*    student_type, names of facilities and locations) are left out.       *)
(***************************************************************************)
EXTENDS Integers, Sequences, FiniteSets, TLC

VARIABLES facilities, locations, members, attendance, resp, req, handlers

vars == <<facilities, locations, members, attendance, resp, req, handlers>>

----------------------------------------------------------------------------
(* Bounds of the model *)

\* number of rows the members table may hold
MaxMembers == 2
\* number of rows the attendance table may hold
MaxEvents == 3
\* resolution of the clock: ticks in one second
TicksPerSecond == 2

(* Program constants *)

IGNORE_MINUTES == 15
FACILITY_MINUTES == 30
SecondsPerMinute == 60
PhoneDigits == 10

None == "None"
NoPhone == <<"None">>
NoTime == 0 - 1

\* no date (None); a date is <<year, month, day>>
NoDate == <<>>

\* tzinfo of a datetime: <<>> when it is naive, <<utcoffset>> when it is aware
Naive == <<>>

Minute == SecondsPerMinute * TicksPerSecond

----------------------------------------------------------------------------
(* String helpers *)

Digits == {"0", "1", "2", "3", "4", "5", "6", "7", "8", "9"}

RECURSIVE LStrip(_, _)
LStrip(s, chars) ==
    IF s # <<>> /\ Head(s) \in chars THEN LStrip(Tail(s), chars) ELSE s

RECURSIVE RStrip(_, _)
RStrip(s, chars) ==
    IF s # <<>> /\ s[Len(s)] \in chars
    THEN RStrip(SubSeq(s, 1, Len(s) - 1), chars)
    ELSE s

\* str.strip(chars)
Strip(s, chars) == RStrip(LStrip(s, chars), chars)

Whitespace == {" "}

LowerChar(c) ==
    CASE c = "J" -> "j"
      [] c = "O" -> "o"
      [] c = "A" -> "a"
      [] c = "L" -> "l"
      [] c = "D" -> "d"
      [] c = "E" -> "e"
      [] c = "HTTP://" -> "http://"
      [] c = "HTTPS://" -> "https://"
      [] OTHER -> c

\* str.lower() / SQL LOWER()
Lower(s) == [i \in 1..Len(s) |-> LowerChar(s[i])]

\* normalize_name: (s or "").strip()
normalize_name(s) == Strip(s, Whitespace)

IsDigit(c) == c \in Digits

\* normalize_phone keeping the first ten digits (digits[:10])
normalize_phone_FirstTen(s) ==
    IF s = NoPhone \/ s = <<>>
    THEN NoPhone
    ELSE LET digits == SelectSeq(s, IsDigit)
             kept == IF Len(digits) > PhoneDigits
                     THEN SubSeq(digits, 1, PhoneDigits)
                     ELSE digits
         IN IF kept # <<>> THEN kept ELSE NoPhone

\* normalize_phone: digits only, last ten kept, nothing left -> None
normalize_phone(s) ==
    IF s = NoPhone \/ s = <<>>
    THEN NoPhone
    ELSE LET digits == SelectSeq(s, IsDigit)
             kept == IF Len(digits) > PhoneDigits
                     THEN SubSeq(digits, Len(digits) - PhoneDigits + 1, Len(digits))
                     ELSE digits
         IN IF kept # <<>> THEN kept ELSE NoPhone

\* position of the first element of s that lies in set, 0 when there is none
FirstIndex(s, set) ==
    IF \E i \in 1..Len(s) : s[i] \in set
    THEN CHOOSE i \in 1..Len(s) : s[i] \in set /\ \A j \in 1..(i - 1) : s[j] \notin set
    ELSE 0

\* str.split(d): the pieces of s between the occurrences of d
RECURSIVE Split(_, _)
Split(s, d) ==
    LET i == FirstIndex(s, {d})
    IN IF i = 0
       THEN <<s>>
       ELSE <<SubSeq(s, 1, i - 1)>> \o Split(SubSeq(s, i + 1, Len(s)), d)

\* parse_qs(query)[key]: the non-blank values given to key, in order
ParamValues(query, key) ==
    LET pairs == Split(query, "&")
        IsKey(p) == LET e == FirstIndex(p, {"="})
                    IN /\ e # 0
                       /\ SubSeq(p, 1, e - 1) = <<key>>
                       /\ SubSeq(p, e + 1, Len(p)) # <<>>
        hits == SelectSeq(pairs, IsKey)
    IN [i \in 1..Len(hits) |->
            SubSeq(hits[i], FirstIndex(hits[i], {"="}) + 1, Len(hits[i]))]

QrKeys == <<"qr", "code", "value">>

\* normalize_qr_value with the keys tried in the order value, code, qr
normalize_qr_value_KeyOrder(s) ==
    LET raw == Strip(Strip(Strip(s, Whitespace), {"\""}), {"'"})
    IN IF raw = <<>>
       THEN raw
       ELSE IF Head(Lower(raw)) \in {"http://", "https://"}
       THEN LET rest == Tail(raw)
                n == FirstIndex(rest, {"/", "?"})
                tail == IF n = 0 THEN <<>> ELSE SubSeq(rest, n, Len(rest))
                q == FirstIndex(tail, {"?"})
                urlpath == IF q = 0 THEN tail ELSE SubSeq(tail, 1, q - 1)
                query == IF q = 0 THEN <<>> ELSE SubSeq(tail, q + 1, Len(tail))
                present == {k \in 1..Len(QrKeys) : ParamValues(query, QrKeys[k]) # <<>>}
                path == Strip(urlpath, {"/"})
                segs == Split(path, "/")
            IN IF present # {}
               THEN LET k == CHOOSE k \in present : \A j \in present : k >= j
                    IN Strip(ParamValues(query, QrKeys[k])[1], Whitespace)
               ELSE IF path # <<>>
               THEN segs[Len(segs)]
               ELSE raw
       ELSE raw

\* normalize_qr_value: the code carried by a raw code or by a URL
normalize_qr_value(s) ==
    LET raw == Strip(Strip(Strip(s, Whitespace), {"\""}), {"'"})
    IN IF raw = <<>>
       THEN raw
       ELSE IF Head(Lower(raw)) \in {"http://", "https://"}
       THEN LET rest == Tail(raw)
                n == FirstIndex(rest, {"/", "?"})
                tail == IF n = 0 THEN <<>> ELSE SubSeq(rest, n, Len(rest))
                q == FirstIndex(tail, {"?"})
                urlpath == IF q = 0 THEN tail ELSE SubSeq(tail, 1, q - 1)
                query == IF q = 0 THEN <<>> ELSE SubSeq(tail, q + 1, Len(tail))
                present == {k \in 1..Len(QrKeys) : ParamValues(query, QrKeys[k]) # <<>>}
                path == Strip(urlpath, {"/"})
                segs == Split(path, "/")
            IN IF present # {}
               THEN LET k == CHOOSE k \in present : \A j \in present : k <= j
                    IN Strip(ParamValues(query, QrKeys[k])[1], Whitespace)
               ELSE IF path # <<>>
               THEN segs[Len(segs)]
               ELSE raw
       ELSE raw

----------------------------------------------------------------------------
(* Values of the optional fields *)

NoName == <<"None">>
NoFlag == 0 - 1
NoMember == 0
NoId == <<>>

(* The seed data (two of the facilities of seed.py, one location each) *)

FACILITIES ==
    { [id |-> "FAC_FINDLAY_BJJ", active |-> 1],
      [id |-> "FAC_MONROE_BJJ", active |-> 1] }

LOCATIONS ==
    { [id |-> "LOC_FINDLAY_CHECKIN", facility_id |-> "FAC_FINDLAY_BJJ",
       qr_value |-> <<"QR_FAC_FINDLAY_BJJ">>],
      [id |-> "LOC_MONROE_CHECKIN", facility_id |-> "FAC_MONROE_BJJ",
       qr_value |-> <<"QR_FAC_MONROE_BJJ">>] }

\* the value of the ADMIN_PASSWORD environment variable
ADMIN_PASSWORD == "secret"

----------------------------------------------------------------------------
(* Responses *)

NoResp ==
    [http |-> 0, status |-> "none", detail |-> "", attendance_id |-> NoId,
     member_id |-> NoMember, facility_id |-> None, location_id |-> None,
     check_in_time |-> NoTime, minutes_since_last |-> <<>>, timestamp |-> NoTime,
     utcoffset |-> Naive, months_since_promotion |-> <<>>,
     sessions_since_promotion |-> <<>>, rows |-> {}, summary |-> {}]

\* raise HTTPException(status_code, detail)
HTTPException(code, detail) ==
    [NoResp EXCEPT !.http = code, !.status = "error", !.detail = detail]

\* an exception no handler catches (sqlite3.IntegrityError): 500
ServerError == HTTPException(500, "Internal Server Error")

NoReq ==
    [op |-> "none", password |-> None, first_name |-> NoName, last_name |-> NoName, phone |-> NoPhone,
     member |-> NoMember, active |-> NoFlag, qr |-> <<>>, loc |-> None,
     last |-> NoTime, last_tz |-> Naive, ts |-> NoTime, tz |-> Naive,
     start |-> NoDate, now |-> NoDate,
     raw_phone |-> NoPhone, timestamp |-> NoTime, utcnow |-> NoTime]

\* what the latest request was given and what it read: the x-admin-password
\* header (None when the request carries none), the arguments of
\* find_member_by_name, the member it returned and that member's active flag,
\* the scanned code, the location it resolved to, the check-in time of the
\* last event read and the effective timestamp, each with its tzinfo
Request(op, identity, member_id, qr, loc, last, last_tz, ts, tz) ==
    [op |-> op, password |-> None, first_name |-> identity[1], last_name |-> identity[2],
     phone |-> identity[3], member |-> member_id,
     active |-> IF member_id = NoMember THEN NoFlag
                ELSE (CHOOSE m \in members : m.id = member_id).active,
     qr |-> qr, loc |-> loc, last |-> last, last_tz |-> last_tz, ts |-> ts, tz |-> tz,
     start |-> NoDate, now |-> NoDate,
     raw_phone |-> NoPhone, timestamp |-> NoTime, utcnow |-> NoTime]

\* the request r with the payload as sent: the phone before normalize_phone,
\* payload.timestamp (NoTime when omitted) and the reading of datetime.utcnow()
Given(r, phone, timestamp, now) ==
    [r EXCEPT !.raw_phone = phone, !.timestamp = timestamp, !.utcnow = now]

\* the request handlers that run concurrently (threads of the server)
Workers == {1, 2}

NoLoc == [id |-> None, facility_id |-> None, qr_value |-> <<>>]

\* a handler that is not inside scan_qr
Idle ==
    [pc |-> "idle", identity |-> <<NoName, NoName, NoPhone>>, member_id |-> NoMember,
     qr_value |-> <<>>, ts |-> NoTime, tz |-> Naive, loc |-> NoLoc,
     last |-> NoTime, last_tz |-> Naive]

----------------------------------------------------------------------------
(* Tables *)

MemberIds == 1..MaxMembers

\* the row of the members table with primary key id
MemberRow(id) == CHOOSE m \in members : m.id = id

\* uuid4-based member id: an id no row uses
NewMemberId == CHOOSE id \in MemberIds : /\ \A m \in members : m.id # id
                                         /\ \A j \in 1..(id - 1) : \E m \in members : m.id = j

\* UNIQUE(first_name, last_name, phone): NULL phones never collide
MemberUniqueViolation(row, others) ==
    \E m \in others :
        /\ m.first_name = row.first_name
        /\ m.last_name = row.last_name
        /\ m.phone # NoPhone
        /\ m.phone = row.phone

\* all the orders in which a SELECT without ORDER BY may return the rows S
RowOrders(S) ==
    { f \in [1..Cardinality(S) -> S] : \A i, j \in 1..Cardinality(S) : f[i] = f[j] => i = j }

\* rows of members WHERE LOWER(first_name) = LOWER(?) AND LOWER(last_name) = LOWER(?)
NameMatches(first_name, last_name) ==
    { m \in members : /\ Lower(m.first_name) = Lower(first_name)
                      /\ Lower(m.last_name) = Lower(last_name) }

\* find_member_by_name falling back to the first row when no phone matches
find_member_by_name_Fallback(rows, phone) ==
    IF rows = <<>>
    THEN NoMember
    ELSE LET hits == {i \in 1..Len(rows) : normalize_phone(rows[i].phone) = phone}
         IN IF phone # NoPhone /\ hits # {}
            THEN rows[CHOOSE i \in hits : \A j \in hits : i <= j].id
            ELSE rows[1].id

\* find_member_by_name after the SELECT returned rows; NoMember for None
find_member_by_name(rows, phone) ==
    IF rows = <<>>
    THEN NoMember
    ELSE IF phone # NoPhone
    THEN LET hits == {i \in 1..Len(rows) : normalize_phone(rows[i].phone) = phone}
         IN IF hits = {}
            THEN NoMember
            ELSE rows[CHOOSE i \in hits : \A j \in hits : i <= j].id
    ELSE rows[1].id

\* require_admin: 0 when the header carries the password, else the error status
require_admin(provided) ==
    IF ADMIN_PASSWORD = ""
    THEN 500
    ELSE IF provided # ADMIN_PASSWORD THEN 401 ELSE 0

----------------------------------------------------------------------------
(* Operations *)

Init ==
    /\ facilities = {}
    /\ locations = {}
    /\ members = {}
    /\ attendance = {}
    /\ resp = NoResp
    /\ req = NoReq
    /\ handlers = [w \in Workers |-> Idle]

\* seed.py: INSERT OR IGNORE of the facilities and of the locations
Seed ==
    /\ facilities' = facilities \cup
          {f \in FACILITIES : \A g \in facilities : g.id # f.id}
    /\ locations' = locations \cup
          {l \in LOCATIONS : \A k \in locations : k.id # l.id /\ k.qr_value # l.qr_value}
    /\ resp' = NoResp
    /\ req' = [NoReq EXCEPT !.op = "seed"]
    /\ UNCHANGED <<members, attendance, handlers>>

\* create_member_record (POST /members and, behind require_admin, POST
\* /admin/members), for a payload without promotion_start_date
create_member_record(first_name, last_name, phone, active) ==
    LET fn == normalize_name(first_name)
        ln == normalize_name(last_name)
        ph == normalize_phone(phone)
        row == [id |-> NewMemberId, first_name |-> fn, last_name |-> ln,
                phone |-> ph, active |-> active, promotion_start_date |-> NoDate]
    IN /\ Cardinality(members) < MaxMembers
       /\ IF fn = <<>> \/ ln = <<>>
          THEN /\ resp' = HTTPException(400, "first_name and last_name are required")
               /\ UNCHANGED members
          ELSE IF MemberUniqueViolation(row, members)
          THEN /\ resp' = ServerError
               /\ UNCHANGED members
          ELSE /\ members' = members \cup {row}
               /\ resp' = [NoResp EXCEPT !.http = 200, !.status = "ok", !.member_id = row.id]
       /\ UNCHANGED <<facilities, locations, attendance, handlers>>

\* POST /members: no require_admin, the request carries no admin header
create_member(first_name, last_name, phone, active) ==
    /\ create_member_record(first_name, last_name, phone, active)
    /\ req' = [NoReq EXCEPT !.op = "create_member"]

\* POST /admin/members
admin_create_member(pw, first_name, last_name, phone, active) ==
    /\ req' = [NoReq EXCEPT !.op = "admin_create_member", !.password = pw]
    /\ IF require_admin(pw) # 0
       THEN /\ resp' = HTTPException(require_admin(pw), "Invalid admin password")
            /\ UNCHANGED <<facilities, locations, members, attendance, handlers>>
       ELSE create_member_record(first_name, last_name, phone, active)

\* PUT /admin/members/{member_id}
admin_update_member(pw, member_id, first_name, last_name, phone, active, promotion_start_date) ==
    LET old == MemberRow(member_id)
        new == [old EXCEPT
                  !.first_name = IF first_name # NoName THEN normalize_name(first_name) ELSE @,
                  !.last_name = IF last_name # NoName THEN normalize_name(last_name) ELSE @,
                  !.phone = IF phone # NoPhone THEN normalize_phone(phone) ELSE @,
                  !.active = IF active # NoFlag THEN active ELSE @,
                  !.promotion_start_date =
                      IF promotion_start_date # NoDate THEN promotion_start_date ELSE @]
    IN /\ req' = [NoReq EXCEPT !.op = "update_member", !.password = pw]
       /\ IF require_admin(pw) # 0
          THEN /\ resp' = HTTPException(require_admin(pw), "Invalid admin password")
               /\ UNCHANGED members
          ELSE IF /\ first_name = NoName /\ last_name = NoName /\ phone = NoPhone
                  /\ active = NoFlag /\ promotion_start_date = NoDate
          THEN /\ resp' = HTTPException(400, "No fields to update")
               /\ UNCHANGED members
          ELSE IF \A m \in members : m.id # member_id
          THEN /\ resp' = HTTPException(404, "Member not found")
               /\ UNCHANGED members
          ELSE IF MemberUniqueViolation(new, members \ {old})
          THEN /\ resp' = ServerError
               /\ UNCHANGED members
          ELSE /\ members' = (members \ {old}) \cup {new}
               /\ resp' = [NoResp EXCEPT !.http = 200, !.status = "ok"]
       /\ UNCHANGED <<facilities, locations, attendance, handlers>>

----------------------------------------------------------------------------
(* Facilities and locations *)

\* default_facility_id(name): "FAC_" and the slug of the name, for the names
\* the requests of the model use
default_facility_id(name) ==
    CASE name = "Findlay BJJ" -> "FAC_FINDLAY_BJJ"
      [] name = " saline bjj " -> "FAC_SALINE_BJJ"
      [] OTHER -> "FAC_"

\* default_location_id(facility_id): "LOC_", the id without "FAC_", "_CHECKIN"
default_location_id(facility_id) ==
    CASE facility_id = "FAC_FINDLAY_BJJ" -> "LOC_FINDLAY_BJJ_CHECKIN"
      [] facility_id = "FAC_MONROE_BJJ" -> "LOC_MONROE_BJJ_CHECKIN"
      [] facility_id = "FAC_SALINE_BJJ" -> "LOC_SALINE_BJJ_CHECKIN"
      [] OTHER -> "LOC__CHECKIN"

\* default_qr_value(facility_id): "QR_" and the id
default_qr_value(facility_id) ==
    CASE facility_id = "FAC_FINDLAY_BJJ" -> <<"QR_FAC_FINDLAY_BJJ">>
      [] facility_id = "FAC_MONROE_BJJ" -> <<"QR_FAC_MONROE_BJJ">>
      [] facility_id = "FAC_SALINE_BJJ" -> <<"QR_FAC_SALINE_BJJ">>
      [] OTHER -> <<"QR_FAC_">>

\* locations.id PRIMARY KEY, locations.qr_value UNIQUE
LocationKeyViolation(row, others) ==
    \E l \in others : l.id = row.id \/ l.qr_value = row.qr_value

\* create_facility without the rollback of DBConn.__exit__: the facility
\* inserted before the 409 of the location stays
FacilitiesAfterConflict_NoRollback(rows, row) == rows \cup {row}

\* the facilities table after create_facility raised inside the with block:
\* DBConn.__exit__ rolls the INSERT of the facility back
FacilitiesAfterConflict(rows, row) == rows

\* POST /admin/facilities; None stands for an omitted id, location_id, qr_value
create_facility(pw, id, name, active, create_loc, location_id, qr_value) ==
    LET facility_id == IF id # None THEN id ELSE default_facility_id(name)
        loc_id == IF location_id # None THEN location_id
                  ELSE default_location_id(facility_id)
        qr == IF qr_value # <<>> THEN qr_value ELSE default_qr_value(facility_id)
        fac == [id |-> facility_id, active |-> active]
        loc == [id |-> loc_id, facility_id |-> facility_id, qr_value |-> qr]
    IN /\ req' = [NoReq EXCEPT !.op = "create_facility", !.password = pw]
       /\ IF require_admin(pw) # 0
          THEN /\ resp' = HTTPException(require_admin(pw), "Invalid admin password")
               /\ UNCHANGED <<facilities, locations>>
          ELSE IF \E f \in facilities : f.id = facility_id
          THEN /\ resp' = HTTPException(409, "Facility already exists")
               /\ UNCHANGED <<facilities, locations>>
          ELSE IF create_loc /\ LocationKeyViolation(loc, locations)
          THEN /\ resp' = HTTPException(409, "Location or QR already exists")
               /\ facilities' = FacilitiesAfterConflict(facilities, fac)
               /\ UNCHANGED locations
          ELSE /\ facilities' = facilities \cup {fac}
               /\ locations' = IF create_loc THEN locations \cup {loc} ELSE locations
               /\ resp' = [NoResp EXCEPT !.http = 200, !.status = "ok",
                                         !.facility_id = facility_id,
                                         !.location_id = IF create_loc THEN loc_id ELSE None]
       /\ UNCHANGED <<members, attendance, handlers>>

\* PUT /admin/facilities/{facility_id}; NoFlag stands for an omitted active
update_facility(pw, facility_id, active) ==
    /\ req' = [NoReq EXCEPT !.op = "update_facility", !.password = pw]
    /\ IF require_admin(pw) # 0
       THEN /\ resp' = HTTPException(require_admin(pw), "Invalid admin password")
            /\ UNCHANGED facilities
       ELSE IF active = NoFlag
       THEN /\ resp' = HTTPException(400, "No fields to update")
            /\ UNCHANGED facilities
       ELSE IF \A f \in facilities : f.id # facility_id
       THEN /\ resp' = HTTPException(404, "Facility not found")
            /\ UNCHANGED facilities
       ELSE /\ facilities' = {IF f.id = facility_id THEN [f EXCEPT !.active = active] ELSE f
                                : f \in facilities}
            /\ resp' = [NoResp EXCEPT !.http = 200, !.status = "ok"]
    /\ UNCHANGED <<locations, members, attendance, handlers>>

\* the INSERT of create_location on a table without the UNIQUE of qr_value
LocationInsertFails_NoUnique(row, others) == \E l \in others : l.id = row.id

\* the INSERT of create_location raises IntegrityError
LocationInsertFails(row, others) == LocationKeyViolation(row, others)

\* POST /admin/locations: the SELECT looks for the code as given, the INSERT
\* stores the stripped code; the facility is not looked up (SQLite does not
\* enforce the foreign key)
create_location(pw, id, facility_id, qr_value) ==
    LET row == [id |-> id, facility_id |-> facility_id,
                qr_value |-> Strip(qr_value, Whitespace)]
    IN /\ req' = [NoReq EXCEPT !.op = "create_location", !.password = pw]
       /\ IF require_admin(pw) # 0
          THEN /\ resp' = HTTPException(require_admin(pw), "Invalid admin password")
               /\ UNCHANGED locations
          ELSE IF \E l \in locations : l.id = id \/ l.qr_value = qr_value
          THEN /\ resp' = HTTPException(409, "Location or QR already exists")
               /\ UNCHANGED locations
          ELSE IF LocationInsertFails(row, locations)
          THEN /\ resp' = ServerError
               /\ UNCHANGED locations
          ELSE /\ locations' = locations \cup {row}
               /\ resp' = [NoResp EXCEPT !.http = 200, !.status = "ok", !.location_id = id]
       /\ UNCHANGED <<facilities, members, attendance, handlers>>

\* GET /attendance: the rows, by their ids
list_attendance ==
    /\ req' = [NoReq EXCEPT !.op = "list_attendance"]
    /\ resp' = [NoResp EXCEPT !.http = 200, !.status = "ok",
                              !.rows = {e.id : e \in attendance}]
    /\ UNCHANGED <<facilities, locations, members, attendance, handlers>>

----------------------------------------------------------------------------
(* Reports *)

\* a promotion_start_date text that is no date
Unparsable == <<0, 0, 0>>

\* parse_promotion_date: None for no text and for a text that is no date
parse_promotion_date(value) ==
    IF value = NoDate \/ value = Unparsable THEN NoDate ELSE value

\* months_since with the day compared by > in place of >=
months_since_StrictDay(start, end) ==
    LET months == (end[1] - start[1]) * 12 + (end[2] - start[2])
        counted == IF end[3] > start[3] THEN months + 1 ELSE months
    IN IF counted > 0 THEN counted ELSE 0

\* months_since(start, end)
months_since(start, end) ==
    LET months == (end[1] - start[1]) * 12 + (end[2] - start[2])
        counted == IF end[3] >= start[3] THEN months + 1 ELSE months
    IN IF counted > 0 THEN counted ELSE 0

\* the date of every check-in time of the model (all within the first day)
EpochDate == <<1970, 1, 1>>

\* start.isoformat() <= check_in_time, as texts, for a start at midnight
DateLeq(a, b) ==
    \/ a[1] < b[1]
    \/ a[1] = b[1] /\ a[2] < b[2]
    \/ a[1] = b[1] /\ a[2] = b[2] /\ a[3] <= b[3]

\* COUNT(*) FROM attendance WHERE user_id = ? [AND check_in_time >= ?]
SessionsSince(member_id, start) ==
    Cardinality({e \in attendance :
                    /\ e.user_id = member_id
                    /\ start # NoDate => DateLeq(start, EpochDate)})

\* months_since_promotion of a report: None without a start date
MonthsElapsed(start, now) == IF start # NoDate THEN <<months_since(start, now)>> ELSE <<>>

\* GET /admin/reports/member/{member_id} (and its .csv form); now is the
\* date of datetime.utcnow()
report_member_detail(pw, member_id, now) ==
    /\ IF require_admin(pw) # 0
       THEN /\ resp' = HTTPException(require_admin(pw), "Invalid admin password")
            /\ req' = [NoReq EXCEPT !.op = "report_member", !.password = pw, !.now = now]
       ELSE IF \A m \in members : m.id # member_id
       THEN /\ resp' = HTTPException(404, "Member not found")
            /\ req' = [NoReq EXCEPT !.op = "report_member", !.password = pw, !.now = now]
       ELSE \E start \in {parse_promotion_date(MemberRow(member_id).promotion_start_date)} :
            /\ resp' = [NoResp EXCEPT
                          !.http = 200, !.status = "ok", !.member_id = member_id,
                          !.months_since_promotion = MonthsElapsed(start, now),
                          !.sessions_since_promotion = <<SessionsSince(member_id, start)>>]
            /\ req' = [NoReq EXCEPT !.op = "report_member", !.password = pw,
                                    !.member = member_id, !.start = start, !.now = now]
    /\ UNCHANGED <<facilities, locations, members, attendance, handlers>>

\* GET /admin/reports/members-summary (and its .csv form)
report_members_summary(pw, now) ==
    /\ req' = [NoReq EXCEPT !.op = "report_summary", !.password = pw, !.now = now]
    /\ IF require_admin(pw) # 0
       THEN resp' = HTTPException(require_admin(pw), "Invalid admin password")
       ELSE resp' = [NoResp EXCEPT
                       !.http = 200, !.status = "ok",
                       !.summary = {[id |-> m.id,
                                  months_since_promotion |->
                                      MonthsElapsed(parse_promotion_date(m.promotion_start_date), now),
                                  sessions_since_promotion |->
                                      SessionsSince(m.id, parse_promotion_date(m.promotion_start_date))]
                                   : m \in members}]
    /\ UNCHANGED <<facilities, locations, members, attendance, handlers>>

----------------------------------------------------------------------------
(* POST /scan *)

\* LocationsByQr joined with the facilities that are active
LocationsByQr_ActiveOnly(qr) ==
    {l \in locations : /\ l.qr_value = qr
                       /\ \E f \in facilities : f.id = l.facility_id /\ f.active = 1}

\* SELECT id, facility_id FROM locations WHERE qr_value = ?
LocationsByQr(qr) == {l \in locations : l.qr_value = qr}

\* step 2 of scan_qr: the value as given first, the normalized value second
ResolveLocation(qr_value) ==
    LET qr_raw == qr_value
        qr_norm == normalize_qr_value(qr_raw)
    IN IF LocationsByQr(qr_raw) # {}
       THEN LocationsByQr(qr_raw)
       ELSE IF qr_norm # <<>> /\ qr_norm # qr_raw
       THEN LocationsByQr(qr_norm)
       ELSE {}

\* rows of attendance WHERE user_id = ? AND facility_id = ?
EventsOf(ledger, member_id, facility_id) ==
    {e \in ledger : e.user_id = member_id /\ e.facility_id = facility_id}

\* the place of the text ts.isoformat() among the texts with the same
\* wall-clock reading: "" before "+HH:MM" before "-HH:MM"
IsoSuffix(tz) ==
    IF tz = Naive THEN <<0, 0>>
    ELSE IF tz[1] >= 0 THEN <<1, tz[1]>>
    ELSE <<2, 0 - tz[1]>>

\* check_in_time of o <= check_in_time of e, as the TEXT column compares
IsoLeq(o, e) ==
    \/ o.check_in_time < e.check_in_time
    \/ /\ o.check_in_time = e.check_in_time
       /\ \/ IsoSuffix(o.utcoffset)[1] < IsoSuffix(e.utcoffset)[1]
          \/ /\ IsoSuffix(o.utcoffset)[1] = IsoSuffix(e.utcoffset)[1]
             /\ IsoSuffix(o.utcoffset)[2] <= IsoSuffix(e.utcoffset)[2]

\* ... ORDER BY check_in_time DESC LIMIT 1: the row read as last
LastEvent(ledger, member_id, facility_id) ==
    LET evs == EventsOf(ledger, member_id, facility_id)
    IN CHOOSE e \in evs : \A o \in evs : IsoLeq(o, e)

\* the check_in_time of the row read as last; NoTime when there is no row
LastCheckIn(ledger, member_id, facility_id) ==
    IF EventsOf(ledger, member_id, facility_id) = {}
    THEN NoTime
    ELSE LastEvent(ledger, member_id, facility_id).check_in_time

\* the tzinfo datetime.fromisoformat gives the row read as last
LastZone(ledger, member_id, facility_id) ==
    IF EventsOf(ledger, member_id, facility_id) = {}
    THEN Naive
    ELSE LastEvent(ledger, member_id, facility_id).utcoffset

\* the point in time of a datetime, in ticks since the epoch
Instant(ts, tz) == IF tz = Naive THEN ts ELSE ts - tz[1]

\* ts - last_time, in ticks: readings for two naive datetimes, points in
\* time for two aware ones
Elapsed(last, last_tz, ts, tz) == Instant(ts, tz) - Instant(last, last_tz)

\* step 3 of scan_qr: the ignore / block windows on the minutes since last;
\* subtracting a naive and an aware datetime raises TypeError
Decide(last, last_tz, ts, tz) ==
    IF last = NoTime
    THEN "ok"
    ELSE IF (last_tz = Naive) # (tz = Naive)
    THEN "error"
    ELSE IF Elapsed(last, last_tz, ts, tz) < IGNORE_MINUTES * Minute
    THEN "ignored"
    ELSE IF Elapsed(last, last_tz, ts, tz) < FACILITY_MINUTES * Minute
    THEN "too_soon"
    ELSE "ok"

\* int(x): the integer part of n / d, rounded towards zero
IntPart(n, d) == IF n >= 0 THEN n \div d ELSE 0 - ((0 - n) \div d)

\* f"ATT_{int(ts.timestamp())}_{member_id}"
AttendanceId(ts, tz, member_id) ==
    <<IntPart(Instant(ts, tz), TicksPerSecond), member_id>>

\* the row step 4 of scan_qr inserts
NewEvent(ts, tz, member_id, loc) ==
    [id |-> AttendanceId(ts, tz, member_id), user_id |-> member_id,
     facility_id |-> loc.facility_id, location_id |-> loc.id,
     check_in_time |-> ts, utcoffset |-> tz, check_out_time |-> NoTime]

\* PRIMARY KEY of attendance
AttendanceKeyViolation(ledger, row) == \E e \in ledger : e.id = row.id

\* LedgerAfter with the insert placed before the return of the block window
LedgerAfter_BlockedInserts(ledger, decision, row) ==
    IF decision \in {"ok", "too_soon"} /\ ~AttendanceKeyViolation(ledger, row)
    THEN ledger \cup {row}
    ELSE ledger

\* LedgerAfter with INSERT OR REPLACE on one row per member and facility
LedgerAfter_Replace(ledger, decision, row) ==
    IF decision = "ok" /\ ~AttendanceKeyViolation(ledger, row)
    THEN (ledger \ EventsOf(ledger, row.user_id, row.facility_id)) \cup {row}
    ELSE ledger

\* the ledger after a scan with the given decision: only "ok" inserts
LedgerAfter(ledger, decision, row) ==
    IF decision = "ok" /\ ~AttendanceKeyViolation(ledger, row)
    THEN ledger \cup {row}
    ELSE ledger

\* the response of a scan that passed the member and code validation
ScanResponse(ledger, decision, row, last, last_tz) ==
    IF decision = "ok"
    THEN IF AttendanceKeyViolation(ledger, row)
         THEN ServerError
         ELSE [NoResp EXCEPT !.http = 200, !.status = "ok",
                             !.attendance_id = row.id, !.member_id = row.user_id,
                             !.facility_id = row.facility_id,
                             !.location_id = row.location_id,
                             !.check_in_time = row.check_in_time,
                             !.utcoffset = row.utcoffset]
    ELSE IF decision = "error"
    THEN ServerError
    ELSE [NoResp EXCEPT !.http = 200, !.status = decision,
                        !.member_id = row.user_id, !.facility_id = row.facility_id,
                        !.minutes_since_last =
                            <<Elapsed(last, last_tz, row.check_in_time, row.utcoffset)>>,
                        !.timestamp = row.check_in_time,
                        !.utcoffset = row.utcoffset]

MemberError == HTTPException(400, "Name (and phone if used) must match membership database")

\* CodeError raised as a plain exception instead of an HTTPException
CodeError_Uncaught == ServerError

CodeError == HTTPException(400, "QR code not recognized")

\* MemberRejected with a truthiness test (not member["active"]) in place of != 1
MemberRejected_Truthy(member_id) == member_id = NoMember \/ MemberRow(member_id).active = 0

\* step 1 of scan_qr: the member must exist and be active
MemberRejected(member_id) == member_id = NoMember \/ MemberRow(member_id).active # 1

\* EffectiveTimestamp reading the clock whatever the payload carries
EffectiveTimestamp_Clock(timestamp, now) == now

\* ts = payload.timestamp or datetime.utcnow()
EffectiveTimestamp(timestamp, now) == IF timestamp # NoTime THEN timestamp ELSE now

\* scan_qr, executed as one step
scan_qr(first_name, last_name, phone, qr_value, timestamp, tzinfo, now) ==
    \E ts \in {EffectiveTimestamp(timestamp, now)},
       tz \in {IF timestamp # NoTime THEN tzinfo ELSE Naive},
       identity \in {<<normalize_name(first_name), normalize_name(last_name),
                       normalize_phone(phone)>>} :
    \E rows \in RowOrders(NameMatches(identity[1], identity[2])) :
    \E member_id \in {find_member_by_name(rows, identity[3])} :
       IF MemberRejected(member_id)
       THEN /\ resp' = MemberError
            /\ req' = Given(Request("scan", identity, member_id, qr_value, None,
                                    NoTime, Naive, ts, tz),
                            phone, timestamp, now)
            /\ UNCHANGED <<facilities, locations, members, attendance, handlers>>
       ELSE IF ResolveLocation(qr_value) = {}
       THEN /\ resp' = CodeError
            /\ req' = Given(Request("scan", identity, member_id, qr_value, None,
                                    NoTime, Naive, ts, tz),
                            phone, timestamp, now)
            /\ UNCHANGED <<facilities, locations, members, attendance, handlers>>
       ELSE \E loc \in ResolveLocation(qr_value) :
            \E last \in {LastCheckIn(attendance, member_id, loc.facility_id)},
               last_tz \in {LastZone(attendance, member_id, loc.facility_id)},
               row \in {NewEvent(ts, tz, member_id, loc)} :
            \E decision \in {Decide(last, last_tz, ts, tz)} :
            \E ledger \in {LedgerAfter(attendance, decision, row)} :
               /\ Cardinality(ledger) <= MaxEvents
               /\ attendance' = ledger
               /\ resp' = ScanResponse(attendance, decision, row, last, last_tz)
               /\ req' = Given(Request("scan", identity, member_id, qr_value, loc.id,
                                       last, last_tz, ts, tz),
                               phone, timestamp, now)
               /\ UNCHANGED <<facilities, locations, members, handlers>>

\* GET /members/lookup
member_lookup(first_name, last_name, phone) ==
    \E identity \in {<<normalize_name(first_name), normalize_name(last_name),
                       normalize_phone(phone)>>} :
    \E rows \in RowOrders(NameMatches(identity[1], identity[2])) :
    \E member_id \in {find_member_by_name(rows, identity[3])} :
       /\ resp' = IF member_id = NoMember
                  THEN [NoResp EXCEPT !.http = 200, !.status = "invalid",
                                      !.detail = "Not found"]
                  ELSE IF MemberRow(member_id).active # 1
                  THEN [NoResp EXCEPT !.http = 200, !.status = "invalid",
                                      !.detail = "Inactive"]
                  ELSE [NoResp EXCEPT !.http = 200, !.status = "valid",
                                      !.member_id = member_id]
       /\ req' = Given(Request("lookup", identity, member_id, <<>>, None,
                               NoTime, Naive, NoTime, Naive),
                       phone, NoTime, NoTime)
       /\ UNCHANGED <<facilities, locations, members, attendance, handlers>>

----------------------------------------------------------------------------
(* POST /scan, one SQL statement at a time: handlers run scan_qr concurrently, *)
(* each on a connection of its own (get_conn), and nothing but the primary    *)
(* key of attendance orders the read of the last event and the insert         *)

\* statement 1: SELECT ... FROM members
scan_member(w, first_name, last_name, phone, qr_value, timestamp, tzinfo, now) ==
    /\ handlers[w].pc = "idle"
    /\ \E ts \in {EffectiveTimestamp(timestamp, now)},
          tz \in {IF timestamp # NoTime THEN tzinfo ELSE Naive},
          identity \in {<<normalize_name(first_name), normalize_name(last_name),
                          normalize_phone(phone)>>} :
       \E rows \in RowOrders(NameMatches(identity[1], identity[2])) :
       \E member_id \in {find_member_by_name(rows, identity[3])} :
          IF MemberRejected(member_id)
          THEN /\ resp' = MemberError
               /\ req' = Request("scan", identity, member_id, qr_value, None,
                                 NoTime, Naive, ts, tz)
               /\ UNCHANGED handlers
          ELSE /\ handlers' = [handlers EXCEPT ![w] =
                                  [pc |-> "location", identity |-> identity,
                                   member_id |-> member_id, qr_value |-> qr_value,
                                   ts |-> ts, tz |-> tz, loc |-> NoLoc,
                                   last |-> NoTime, last_tz |-> Naive]]
               /\ UNCHANGED <<resp, req>>
    /\ UNCHANGED <<facilities, locations, members, attendance>>

\* statement 2: SELECT ... FROM locations
scan_location(w) ==
    LET h == handlers[w]
    IN /\ h.pc = "location"
       /\ IF ResolveLocation(h.qr_value) = {}
          THEN /\ resp' = CodeError
               /\ req' = Request("scan", h.identity, h.member_id, h.qr_value,
                                 None, NoTime, Naive, h.ts, h.tz)
               /\ handlers' = [handlers EXCEPT ![w] = Idle]
          ELSE /\ \E loc \in ResolveLocation(h.qr_value) :
                    handlers' = [handlers EXCEPT ![w].pc = "last", ![w].loc = loc]
               /\ UNCHANGED <<resp, req>>
       /\ UNCHANGED <<facilities, locations, members, attendance>>

\* statement 3: SELECT ... FROM attendance ... LIMIT 1, and the two windows
scan_last(w) ==
    LET h == handlers[w]
    IN /\ h.pc = "last"
       /\ \E last \in {LastCheckIn(attendance, h.member_id, h.loc.facility_id)},
             last_tz \in {LastZone(attendance, h.member_id, h.loc.facility_id)} :
          \E decision \in {Decide(last, last_tz, h.ts, h.tz)} :
             IF decision # "ok"
             THEN /\ resp' = ScanResponse(attendance, decision,
                                          NewEvent(h.ts, h.tz, h.member_id, h.loc),
                                          last, last_tz)
                  /\ req' = Request("scan", h.identity, h.member_id, h.qr_value,
                                    h.loc.id, last, last_tz, h.ts, h.tz)
                  /\ handlers' = [handlers EXCEPT ![w] = Idle]
             ELSE /\ handlers' = [handlers EXCEPT ![w].pc = "insert", ![w].last = last,
                                                  ![w].last_tz = last_tz]
                  /\ UNCHANGED <<resp, req>>
       /\ UNCHANGED <<facilities, locations, members, attendance>>

\* scan_insert with the read of the last event repeated inside the insert
scan_insert_Rechecked(w) ==
    LET h == handlers[w]
    IN /\ h.pc = "insert"
       /\ \E last \in {LastCheckIn(attendance, h.member_id, h.loc.facility_id)},
             last_tz \in {LastZone(attendance, h.member_id, h.loc.facility_id)},
             row \in {NewEvent(h.ts, h.tz, h.member_id, h.loc)} :
          \E decision \in {Decide(last, last_tz, h.ts, h.tz)} :
          \E ledger \in {LedgerAfter(attendance, decision, row)} :
             /\ Cardinality(ledger) <= MaxEvents
             /\ attendance' = ledger
             /\ resp' = ScanResponse(attendance, decision, row, last, last_tz)
             /\ req' = Request("scan", h.identity, h.member_id, h.qr_value,
                               h.loc.id, last, last_tz, h.ts, h.tz)
             /\ handlers' = [handlers EXCEPT ![w] = Idle]
       /\ UNCHANGED <<facilities, locations, members>>

\* statement 4: INSERT INTO attendance, and the commit
scan_insert(w) ==
    LET h == handlers[w]
    IN /\ h.pc = "insert"
       /\ \E row \in {NewEvent(h.ts, h.tz, h.member_id, h.loc)} :
          \E ledger \in {LedgerAfter(attendance, "ok", row)} :
             /\ Cardinality(ledger) <= MaxEvents
             /\ attendance' = ledger
             /\ resp' = ScanResponse(attendance, "ok", row, h.last, h.last_tz)
             /\ req' = Request("scan", h.identity, h.member_id, h.qr_value,
                               h.loc.id, h.last, h.last_tz, h.ts, h.tz)
             /\ handlers' = [handlers EXCEPT ![w] = Idle]
       /\ UNCHANGED <<facilities, locations, members>>

----------------------------------------------------------------------------
(* Inputs of the requests *)

Jo == <<"J", "o">>
Al == <<"A", "l">>
Doe == <<"D", "o", "e">>

Passwords == {ADMIN_PASSWORD, "wrong"}

QrValues ==
    { <<"QR_FAC_FINDLAY_BJJ">>,
      <<"https://", "x", "/", "y", "?", "code", "=", "QR_FAC_MONROE_BJJ">>,
      <<"QR_NOWHERE">> }

Times == {0, 1, IGNORE_MINUTES * Minute, FACILITY_MINUTES * Minute}

\* <<timestamp of the request, reading of the clock>>
TimeInputs == {<<t, 0>> : t \in Times} \cup {<<NoTime, 1>>}

(* The scan policy: two people, told apart by name, and all the timestamps *)

Next ==
    \/ Seed
    \/ \E fn \in {Jo, Al} : create_member(fn, Doe, <<"5">>, 1)
    \/ \E fn \in {Jo, Al}, qr \in QrValues, t \in TimeInputs :
          scan_qr(fn, Doe, NoPhone, qr, t[1], Naive, t[2])

Spec == Init /\ [][Next]_vars

(* The directory: one name, several phones and active flags, one timestamp *)

DirNames == { <<Jo, Doe>>, <<<<" ", "j", "O">>, <<"d", "o", "e">>>>, <<Al, Doe>> }
DirPhones == {NoPhone, <<"5">>, <<"7", "-">>}

NextDir ==
    \/ Seed
    \/ \E ph \in DirPhones, a \in {0, 1} : create_member(Jo, Doe, ph, a)
    \/ create_member(<<" ">>, Doe, <<"-">>, 1)
    \/ \E pw \in Passwords : admin_create_member(pw, Jo, Doe, <<"5">>, 1)
    \/ \E id \in 1..(MaxMembers + 1), a \in {0, 1, NoFlag} :
          admin_update_member(ADMIN_PASSWORD, id, NoName, NoName, NoPhone, a, NoDate)
    \/ admin_update_member(ADMIN_PASSWORD, 1, NoName, NoName, NoPhone, 2, NoDate)
    \/ \E ph \in {<<"5">>, <<"-">>} :
          admin_update_member(ADMIN_PASSWORD, 1, NoName, NoName, ph, NoFlag, NoDate)
    \/ admin_update_member("wrong", 1, NoName, NoName, NoPhone, 0, NoDate)
    \/ \E n \in DirNames, ph \in DirPhones :
          scan_qr(n[1], n[2], ph, <<"QR_FAC_FINDLAY_BJJ">>, NoTime, Naive, 0)
    \/ \E n \in DirNames : scan_qr(n[1], n[2], NoPhone, <<"QR_NOWHERE">>, NoTime, Naive, 0)
    \/ \E n \in DirNames, ph \in DirPhones :
          member_lookup(n[1], n[2], ph)

SpecDir == Init /\ [][NextDir]_vars

(* Concurrent scans *)

NextConc ==
    \/ Seed
    \/ create_member(Jo, Doe, <<"5">>, 1)
    \/ \E w \in Workers, t \in {0, 1, IGNORE_MINUTES * Minute} :
          scan_member(w, Jo, Doe, NoPhone, <<"QR_FAC_FINDLAY_BJJ">>, t, Naive, t)
    \/ \E w \in Workers : scan_location(w)
    \/ \E w \in Workers : scan_last(w)
    \/ \E w \in Workers : scan_insert(w)

SpecConc == Init /\ [][NextConc]_vars

(* Phones as typed: absent, empty, without a digit, punctuated, and with more *)
(* than ten digits                                                            *)

Eleven == <<"1", "5", "5", "5", "0", "1", "0", "0", "2", "3", "4">>

RawPhones ==
    { NoPhone, <<>>, <<"-">>, <<"(", ")", " ">>, <<"5">>, <<"(", "5", ")">>,
      SubSeq(Eleven, 2, 11),
      Eleven,
      <<"+">> \o SubSeq(Eleven, 1, 4) \o <<"-">> \o SubSeq(Eleven, 5, 11),
      <<"0">> \o Eleven }

NextPhone ==
    \/ Seed
    \/ \E ph \in {NoPhone, <<"-">>, <<"+">> \o Eleven} : create_member(Jo, Doe, ph, 1)
    \/ \E ph \in RawPhones : member_lookup(Jo, Doe, ph)
    \/ \E ph \in RawPhones : scan_qr(Jo, Doe, ph, <<"QR_FAC_FINDLAY_BJJ">>, NoTime, Naive, 0)

SpecPhone == Init /\ [][NextPhone]_vars

(* Reports: promotion start dates before, on and after the day of the report *)

StartDates == { <<2024, 1, 15>>, <<2023, 12, 31>>, <<2024, 3, 20>>, <<2025, 6, 1>>, Unparsable }

ReportDates == { <<2024, 3, 10>>, <<2024, 3, 20>>, <<2024, 1, 15>>, <<2024, 1, 14>>,
                 <<2023, 11, 30>> }

NextReport ==
    \/ Seed
    \/ \E fn \in {Jo, Al} : create_member(fn, Doe, <<"5">>, 1)
    \/ \E id \in 1..MaxMembers, start \in StartDates :
          admin_update_member(ADMIN_PASSWORD, id, NoName, NoName, NoPhone, NoFlag, start)
    \/ scan_qr(Jo, Doe, NoPhone, <<"QR_FAC_FINDLAY_BJJ">>, NoTime, Naive, 0)
    \/ \E pw \in Passwords, id \in 1..MaxMembers, now \in ReportDates :
          report_member_detail(pw, id, now)
    \/ \E pw \in Passwords, now \in ReportDates : report_members_summary(pw, now)

SpecReport == Init /\ [][NextReport]_vars

(* Timestamps with a UTC offset: the same member scans one code with payload  *)
(* timestamps that are naive, in UTC and two hours west of UTC               *)

Utc == <<0>>
West == <<0 - 120 * Minute>>

ZoneInputs ==
    {<<t * Minute, tz>> : t \in {0, 60, 100, 130}, tz \in {Naive, Utc, West}}
        \cup {<<NoTime, Naive>>}

NextZone ==
    \/ Seed
    \/ create_member(Jo, Doe, <<"5">>, 1)
    \/ \E i \in ZoneInputs :
          scan_qr(Jo, Doe, NoPhone, <<"QR_FAC_FINDLAY_BJJ">>, i[1], i[2], 60 * Minute)

SpecZone == Init /\ [][NextZone]_vars

(* Scan codes: URLs given by their parts, and the text a scanner sends *)

\* the sequences of seqs, one after the other, with sep between them
RECURSIVE Join(_, _)
Join(seqs, sep) ==
    IF seqs = <<>> THEN <<>>
    ELSE IF Len(seqs) = 1 THEN seqs[1]
    ELSE seqs[1] \o <<sep>> \o Join(Tail(seqs), sep)

\* a URL: scheme, host, path segments, query parameters (key, value; the
\* value is <<>> when blank) and whether the path ends with "/"
Url(scheme, path, slash, params) ==
    [scheme |-> scheme, host |-> "x", path |-> path, slash |-> slash, params |-> params]

\* the text of the URL u
Render(u) ==
    <<u.scheme, u.host>>
    \o (IF u.path = <<>> THEN <<>>
        ELSE <<"/">> \o Join([i \in 1..Len(u.path) |-> <<u.path[i]>>], "/"))
    \o (IF u.slash THEN <<"/">> ELSE <<>>)
    \o (IF u.params = <<>> THEN <<>>
        ELSE <<"?">> \o Join([i \in 1..Len(u.params) |->
                                 <<u.params[i][1], "=">> \o u.params[i][2]], "&"))

Findlay == <<"QR_FAC_FINDLAY_BJJ">>
Monroe == <<"QR_FAC_MONROE_BJJ">>

Urls ==
    { Url("https://", <<"y">>, FALSE, << <<"code", Monroe>> >>),
      Url("HTTP://", <<"y">>, FALSE, << <<"value", Findlay>>, <<"code", Monroe>> >>),
      Url("https://", <<"QR_FAC_MONROE_BJJ">>, FALSE,
          << <<"code", <<"QR_NOWHERE">>>>, <<"qr", Findlay>> >>),
      Url("http://", <<"y">>, FALSE, << <<"qr", <<>>>>, <<"value", Monroe>> >>),
      Url("https://", <<"a", "QR_FAC_FINDLAY_BJJ">>, TRUE, <<>>),
      Url("https://", <<"a", "QR_FAC_MONROE_BJJ">>, FALSE, << <<"other", Findlay>> >>),
      Url("https://", <<"QR_FAC_FINDLAY_BJJ">>, FALSE,
          << <<"code", Monroe>>, <<"code", Findlay>> >>),
      Url("https://", <<>>, FALSE, <<>>),
      Url("https://", <<"y">>, FALSE, << <<"code", <<"QR_NOWHERE">>>> >>) }

\* a location whose stored code is itself the text of a URL
StoredUrl == Url("https://", <<"y">>, FALSE, << <<"code", Monroe>> >>)

QrTexts ==
    {Render(u) : u \in Urls}
    \cup { Findlay, <<" ", "QR_FAC_MONROE_BJJ", " ">>, <<"\"", "QR_FAC_FINDLAY_BJJ", "\"">>,
           <<"ftp://", "x", "/", "QR_FAC_FINDLAY_BJJ">> }

NextQr ==
    \/ Seed
    \/ create_member(Jo, Doe, <<"5">>, 1)
    \/ \E pw \in Passwords :
          create_location(pw, "LOC_FINDLAY_DOOR", "FAC_FINDLAY_BJJ", Render(StoredUrl))
    \/ \E qr \in QrTexts, t \in {0, FACILITY_MINUTES * Minute} :
          scan_qr(Jo, Doe, NoPhone, qr, t, Naive, 0)

SpecQr == Init /\ [][NextQr]_vars

(* The whole API on a small directory: facilities, locations, members,        *)
(* scans, listings and reports                                                *)

NextAdmin ==
    \/ Seed
    \/ create_member(Jo, Doe, <<"5">>, 1)
    \/ admin_update_member(ADMIN_PASSWORD, 1, NoName, NoName, NoPhone, 0, NoDate)
    \/ \E create_loc \in BOOLEAN :
          create_facility(ADMIN_PASSWORD, None, " saline bjj ", 1, create_loc, None, <<>>)
    \/ create_facility(ADMIN_PASSWORD, None, " saline bjj ", 1, TRUE, None, Findlay)
    \/ create_facility(ADMIN_PASSWORD, None, " saline bjj ", 1, TRUE, "LOC_FINDLAY_DOOR", <<>>)
    \/ create_facility(ADMIN_PASSWORD, "FAC_MONROE_BJJ", "Monroe BJJ", 1, TRUE, None, <<>>)
    \/ create_facility("wrong", None, " saline bjj ", 1, TRUE, None, <<>>)
    \/ \E a \in {0, 1} : update_facility(ADMIN_PASSWORD, "FAC_FINDLAY_BJJ", a)
    \/ \E pw \in Passwords : update_facility(pw, "FAC_NOWHERE", NoFlag)
    \/ update_facility(ADMIN_PASSWORD, "FAC_NOWHERE", 0)
    \/ \E qr \in {<<"QR_DOOR">>, <<" ", "QR_FAC_FINDLAY_BJJ">>} :
          create_location(ADMIN_PASSWORD, "LOC_FINDLAY_DOOR", "FAC_FINDLAY_BJJ", qr)
    \/ create_location("wrong", "LOC_FINDLAY_DOOR", "FAC_FINDLAY_BJJ", <<"QR_DOOR">>)
    \/ member_lookup(Jo, Doe, NoPhone)
    \/ \E qr \in {Findlay, <<"QR_DOOR">>}, t \in {0, FACILITY_MINUTES * Minute} :
          scan_qr(Jo, Doe, NoPhone, qr, t, Naive, 0)
    \/ list_attendance
    \/ report_member_detail(ADMIN_PASSWORD, 1, <<2024, 3, 10>>)
    \/ report_members_summary(ADMIN_PASSWORD, <<2024, 3, 10>>)

SpecAdmin == Init /\ [][NextAdmin]_vars

----------------------------------------------------------------------------
(* Properties *)

\* the latest request was a scan that passed the member and the code validation
ScanDecided == req.op = "scan" /\ req.loc # None

\* the facility of the location the latest scan resolved to
ScanFacility == (CHOOSE l \in locations : l.id = req.loc).facility_id

(* C1: a scan whose member has a last event at the facility, d ticks before   *)
(* the effective timestamp, is Ignored when d < 15 minutes, TooSoon when      *)
(* 15 <= d < 30 minutes and Recorded when d >= 30 minutes.                    *)
C1_Windows ==
    (ScanDecided /\ req.last # NoTime) =>
        LET d == req.ts - req.last
        IN /\ d < IGNORE_MINUTES * Minute => resp.status = "ignored"
           /\ (IGNORE_MINUTES * Minute <= d /\ d < FACILITY_MINUTES * Minute)
                 => resp.status = "too_soon"
           /\ d >= FACILITY_MINUTES * Minute => resp.status = "ok"

(* C2: a step that answers Ignored or TooSoon leaves the attendance ledger as *)
(* it was and answers with HTTP 200.                                          *)
C2_NoWrite ==
    [][resp'.status \in {"ignored", "too_soon"}
          => (attendance' = attendance /\ resp'.http = 200)]_vars

C2_Witness ==
    /\ req.op = "scan"
    /\ resp.status = "too_soon"
    /\ resp.minutes_since_last = <<IGNORE_MINUTES * Minute>>
    /\ attendance # {}

(* C3: a scan that passed validation and found no event of the member at the  *)
(* facility is Recorded: status ok, and its event is in the ledger.           *)
C3_FirstScanRecorded ==
    (ScanDecided /\ req.last = NoTime) =>
        /\ resp.http = 200
        /\ resp.status = "ok"
        /\ \E e \in attendance : e.id = resp.attendance_id /\ e.location_id = req.loc

(* C4: a scan at a facility, made less than 15 minutes after (or at the       *)
(* timestamp of) an event of the same member at another facility and with no  *)
(* event of the member at the scanned facility, is Recorded.                  *)
C4_OtherFacility ==
    ( /\ ScanDecided
      /\ req.last = NoTime
      /\ \E e \in attendance :
            /\ e.user_id = req.member
            /\ e.facility_id # ScanFacility
            /\ req.ts - e.check_in_time \in 0..(IGNORE_MINUTES * Minute - 1) )
    => resp.status = "ok"

(* C5: every step that appends an event appends it for a member whose active  *)
(* flag is 1 when the step starts, and every scan answered ok was resolved to *)
(* such a member.                                                             *)
C5_InactiveNeverRecorded ==
    [][ /\ \A e \in attendance' \ attendance :
              \E m \in members : m.id = e.user_id /\ m.active = 1
        /\ (req'.op = "scan" /\ resp'.status = "ok")
              => \E m \in members : m.id = req'.member /\ m.active = 1 ]_vars

C5_Witness ==
    /\ req.op = "scan"
    /\ req.member # NoMember
    /\ req.active # 1
    /\ resp.http = 400
    /\ \E e \in attendance : e.user_id = req.member

(* C6: the answer to a scan of an existing, inactive member differs from the  *)
(* answer to a scan of an identity no member matches (here: when the one      *)
(* follows the other).                                                        *)
C6_DistinctErrors ==
    [][ ( /\ req.op = "scan" /\ resp.http = 400 /\ req.member = NoMember
          /\ req'.op = "scan" /\ resp'.http = 400
          /\ req'.member # NoMember /\ req'.active # 1 )
        => resp' # resp ]_vars

(* C7: a scan of a found, active member whose code matches no location, as    *)
(* given or normalized, is answered 400 "QR code not recognized"; and a scan  *)
(* answered 400 leaves the ledger and the directory as they were.             *)
C7_Unrecognized ==
    LET qr_norm == normalize_qr_value(req.qr)
    IN ( /\ req.op = "scan"
         /\ req.member # NoMember
         /\ req.active = 1
         /\ \A l \in locations : l.qr_value # req.qr /\ l.qr_value # qr_norm )
       => ( /\ resp.http = 400
            /\ resp.status = "error"
            /\ resp.detail = "QR code not recognized" )

C7_ValidationErrors ==
    /\ []C7_Unrecognized
    /\ [][ (req'.op = "scan" /\ resp'.http = 400)
              => UNCHANGED <<facilities, locations, members, attendance>> ]_vars

C7_Witness ==
    /\ req.op = "scan"
    /\ req.active = 1
    /\ req.qr = <<"QR_NOWHERE">>
    /\ resp.detail = "QR code not recognized"
    /\ locations # {}

(* C8: a scan that is eligible to be recorded (validated, and no event or an  *)
(* event at least 30 minutes old at the facility) gets an identifier no event *)
(* of the ledger has, so its event is stored under that identifier.           *)
C8_UniqueIdentifier ==
    (ScanDecided /\ Decide(req.last, req.last_tz, req.ts, req.tz) = "ok") =>
        \E e \in attendance :
            /\ e.id = AttendanceId(req.ts, req.tz, req.member)
            /\ e.location_id = req.loc
            /\ e.check_in_time = req.ts

(* C9: a handler that has read the last event and decided to record inserts   *)
(* its event whatever was appended since that read (only a primary-key        *)
(* collision stops it), so of two handlers that both read before either       *)
(* inserts, both are Recorded.                                                *)
C9_InsertAfterStaleRead ==
    [][ \A w \in Workers :
          (handlers[w].pc = "insert" /\ handlers'[w].pc = "idle") =>
             LET h == handlers[w]
                 row == NewEvent(h.ts, h.tz, h.member_id, h.loc)
             IN IF \E e \in attendance : e.id = row.id
                THEN attendance' = attendance /\ resp'.http = 500
                ELSE attendance' = attendance \cup {row} /\ resp'.status = "ok" ]_vars

C9_Witness ==
    \E e1, e2 \in attendance :
        /\ e1.user_id = e2.user_id
        /\ e1.facility_id = e2.facility_id
        /\ e1.check_in_time < e2.check_in_time
        /\ e2.check_in_time - e1.check_in_time < FACILITY_MINUTES * Minute

(* C10: a lookup with a phone returns a member only if its name matches       *)
(* case-insensitively and its normalized phone is the phone given, and        *)
(* returns none exactly when no member with that name has that phone.         *)
C10_PhoneLookup ==
    (req.op \in {"scan", "lookup"} /\ req.phone # NoPhone) =>
        LET Matches(m) == /\ Lower(m.first_name) = Lower(req.first_name)
                          /\ Lower(m.last_name) = Lower(req.last_name)
                          /\ normalize_phone(m.phone) = req.phone
        IN /\ req.member # NoMember =>
                 \E m \in members : m.id = req.member /\ Matches(m)
           /\ req.member = NoMember <=> ~\E m \in members : Matches(m)

C10_Witness ==
    /\ req.op = "lookup"
    /\ req.phone # NoPhone
    /\ req.member = NoMember
    /\ Cardinality(NameMatches(req.first_name, req.last_name)) = 1

(* C11: for the same set of members, a lookup by name alone resolves to the   *)
(* same member every time: two such requests for the same name, one after the *)
(* other with the members table unchanged, find the same member.              *)
C11_DeterministicChoice ==
    [][ ( /\ req.op \in {"scan", "lookup"}
          /\ req'.op \in {"scan", "lookup"}
          /\ req.phone = NoPhone
          /\ req'.phone = NoPhone
          /\ Lower(req'.first_name) = Lower(req.first_name)
          /\ Lower(req'.last_name) = Lower(req.last_name)
          /\ members' = members )
        => req'.member = req.member ]_vars

\* the code the URL u carries: the value of the first of the parameters qr,
\* code, value that is present, else the last segment of the path
Carried(u) ==
    LET given(k) == {i \in 1..Len(u.params) : u.params[i][1] = k /\ u.params[i][2] # <<>>}
        first(k) == u.params[CHOOSE i \in given(k) : \A j \in given(k) : i <= j][2]
    IN IF given("qr") # {} THEN first("qr")
       ELSE IF given("code") # {} THEN first("code")
       ELSE IF given("value") # {} THEN first("value")
       ELSE IF u.path # <<>> THEN <<u.path[Len(u.path)]>>
       ELSE <<>>

(* C12: a scan (of an active member) whose code is the text of an http(s) URL *)
(* resolves to the location that stores that text if there is one, else to the *)
(* location that stores the code the URL carries, as a scan of the bare code   *)
(* does, and is answered "QR code not recognized" when there is neither.       *)
C12_UrlResolution ==
    \A u \in Urls :
        (req.op = "scan" /\ req.active = 1 /\ req.qr = Render(u)) =>
            LET stored(code) == {l.id : l \in {k \in locations : k.qr_value = code}}
            IN IF stored(Render(u)) # {}
               THEN req.loc \in stored(Render(u))
               ELSE IF stored(Carried(u)) # {}
               THEN /\ req.loc \in stored(Carried(u))
                    /\ req.loc \in {l.id : l \in ResolveLocation(Carried(u))}
               ELSE req.loc = None /\ resp = CodeError

C12_Witness ==
    /\ req.op = "scan"
    /\ req.qr = Render(Url("HTTP://", <<"y">>, FALSE,
                           << <<"value", Findlay>>, <<"code", Monroe>> >>))
    /\ req.loc = "LOC_MONROE_CHECKIN"
    /\ resp.status = "ok"
    /\ \E l \in locations : l.qr_value = Render(StoredUrl)

(* C13: no two members have the same first name, last name and phone, the     *)
(* names compared case-insensitively and two absent phones counted as equal.  *)
C13_MemberUniqueness ==
    \A m1, m2 \in members :
        ( /\ Lower(m1.first_name) = Lower(m2.first_name)
          /\ Lower(m1.last_name) = Lower(m2.last_name)
          /\ m1.phone = m2.phone )
        => m1 = m2

(* C14: every step that creates a member or changes a field of a member is    *)
(* the step of a request that carries the admin password.                     *)
C14_AdminOnlyWrites ==
    [][members' # members => req'.password = ADMIN_PASSWORD]_vars

(* C15: every step of the API keeps every event of the ledger as it is, and a *)
(* step that changes the ledger is a scan answered ok (Recorded) that adds    *)
(* exactly one event; whatever else is called (lookup, member, facility and   *)
(* location administration, reports, listing, seeding) adds none.             *)
C15_AppendOnly ==
    [][ /\ attendance \subseteq attendance'
        /\ attendance' # attendance =>
              /\ req'.op = "scan"
              /\ resp'.status = "ok"
              /\ Cardinality(attendance' \ attendance) = 1
        /\ (req'.op = "scan" /\ resp'.status = "ok") =>
              Cardinality(attendance') = Cardinality(attendance) + 1 ]_vars

C15_Witness ==
    /\ Cardinality(attendance) = 2
    /\ req.op = "update_member"
    /\ resp.http = 200
    /\ \A e \in attendance : \E m \in members : m.id = e.user_id /\ m.active = 0

(* C17: no two locations store the same scan code, whatever facilities and    *)
(* locations were created (POST /admin/facilities, POST /admin/locations,     *)
(* seeding), so a scanned code resolves to at most one location.              *)
C17_UniqueScanCodes ==
    /\ \A l1, l2 \in locations : l1.qr_value = l2.qr_value => l1 = l2
    /\ req.op = "scan" => Cardinality(ResolveLocation(req.qr)) <= 1

C17_Witness ==
    /\ req.op = "create_location"
    /\ resp.http = 500
    /\ \E l \in locations : l.id = "LOC_FINDLAY_CHECKIN" /\ l.qr_value = Findlay
    /\ \E l \in locations : l.id = "LOC_SALINE_BJJ_CHECKIN"

(* C16: a scan answered ok (Recorded) appends one event: its member is the    *)
(* member the scan resolved to, its location the location the code resolved   *)
(* to, its facility the facility of that location, its check-in time the      *)
(* timestamp of the payload or, without one, the reading of the clock, and    *)
(* its check-out time is empty; the response carries the identifier, member,  *)
(* facility, location and check-in time of that event.                        *)
C16_RecordedEvent ==
    [][ (req'.op = "scan" /\ resp'.status = "ok") =>
          \E e \in attendance' \ attendance :
             /\ attendance' = attendance \cup {e}
             /\ e.user_id = req'.member
             /\ e.location_id = req'.loc
             /\ \E l \in locations : l.id = req'.loc /\ l.facility_id = e.facility_id
             /\ e.check_in_time = IF req'.timestamp # NoTime THEN req'.timestamp
                                  ELSE req'.utcnow
             /\ e.utcoffset = req'.tz
             /\ e.check_out_time = NoTime
             /\ resp'.attendance_id = e.id
             /\ resp'.member_id = e.user_id
             /\ resp'.facility_id = e.facility_id
             /\ resp'.location_id = e.location_id
             /\ resp'.check_in_time = e.check_in_time
             /\ resp'.utcoffset = e.utcoffset ]_vars

C16_Witness ==
    /\ req.op = "scan"
    /\ resp.status = "ok"
    /\ req.timestamp = FACILITY_MINUTES * Minute
    /\ req.utcnow = 0
    /\ \E e \in attendance :
          /\ e.id = resp.attendance_id
          /\ e.check_in_time = FACILITY_MINUTES * Minute
          /\ e.location_id = "LOC_MONROE_CHECKIN"
    /\ \E e \in attendance : e.check_in_time = 1 /\ e.user_id = req.member

(* C18: the phone a lookup or a scan searches with is no-phone when the phone *)
(* sent is absent, empty or without a digit, and otherwise the digits of the  *)
(* phone sent, in their order, the last ten of them when there are more: a    *)
(* digit string of length 1 to 10 that normalize_phone leaves as it is; and a *)
(* phone sent without a digit finds what an omitted phone finds.              *)
C18_PhoneNormalization ==
    (req.op \in {"scan", "lookup"}) =>
        LET raw == req.raw_phone
            digits == IF raw = NoPhone THEN <<>> ELSE SelectSeq(raw, IsDigit)
            n == IF Len(digits) > 10 THEN 10 ELSE Len(digits)
        IN /\ digits = <<>> => req.phone = NoPhone
           /\ digits # <<>> =>
                 /\ req.phone # NoPhone
                 /\ Len(req.phone) = n
                 /\ n \in 1..10
                 /\ \A i \in 1..n :
                       /\ req.phone[i] \in Digits
                       /\ req.phone[i] = digits[Len(digits) - n + i]
           /\ normalize_phone(req.phone) = req.phone
           /\ (raw # NoPhone /\ digits = <<>>) =>
                 /\ req.member \in
                       {find_member_by_name(rows, NoPhone) :
                           rows \in RowOrders(NameMatches(req.first_name, req.last_name))}
                 /\ req.member = NoMember
                       <=> NameMatches(req.first_name, req.last_name) = {}

C18_Witness ==
    /\ req.op = "scan"
    /\ req.raw_phone = <<"0">> \o Eleven
    /\ req.phone = SubSeq(Eleven, 2, 11)
    /\ resp.status = "ok"
    /\ \E m \in members : m.id = req.member /\ m.phone = req.phone
    /\ \E m \in members : m.phone = NoPhone

(* C19: the months since promotion a report gives for a start date and a day  *)
(* of the report are (now.year - start.year) * 12 + (now.month - start.month),*)
(* one more when now.day >= start.day, and 0 when that is negative: 2 for     *)
(* 2024-01-15 on 2024-03-10, 3 on 2024-03-20, never below 0.                  *)
C19_MonthsSince ==
    LET Months(start, now) ==
            LET base == (now[1] - start[1]) * 12 + (now[2] - start[2])
                       + (IF now[3] >= start[3] THEN 1 ELSE 0)
            IN IF base > 0 THEN base ELSE 0
    IN /\ (req.op = "report_member" /\ resp.http = 200 /\ req.start # NoDate) =>
            /\ resp.months_since_promotion = <<Months(req.start, req.now)>>
            /\ resp.months_since_promotion[1] >= 0
            /\ (req.start = <<2024, 1, 15>> /\ req.now = <<2024, 3, 10>>)
                  => resp.months_since_promotion = <<2>>
            /\ (req.start = <<2024, 1, 15>> /\ req.now = <<2024, 3, 20>>)
                  => resp.months_since_promotion = <<3>>
            /\ (~DateLeq(req.start, req.now)) => resp.months_since_promotion = <<0>>
       /\ (req.op = "report_summary" /\ resp.http = 200) =>
            \A m \in members :
               \E row \in resp.summary :
                  /\ row.id = m.id
                  /\ row.months_since_promotion =
                        IF m.promotion_start_date \in {NoDate, Unparsable} THEN <<>>
                        ELSE <<Months(m.promotion_start_date, req.now)>>

C19_Witness ==
    /\ req.op = "report_member"
    /\ req.start = <<2024, 1, 15>>
    /\ req.now = <<2024, 3, 20>>
    /\ resp.months_since_promotion = <<3>>
    /\ \E m \in members : m.promotion_start_date = <<2025, 6, 1>>

(* C20: with scans executed one at a time, any two events of one member at    *)
(* one facility lie at least 30 minutes apart, whatever timestamps the        *)
(* payloads carried.                                                          *)
C20_SpacedEvents ==
    \A e1, e2 \in attendance :
        (e1 # e2 /\ e1.user_id = e2.user_id /\ e1.facility_id = e2.facility_id) =>
            \/ Instant(e1.check_in_time, e1.utcoffset)
                  - Instant(e2.check_in_time, e2.utcoffset) >= FACILITY_MINUTES * Minute
            \/ Instant(e2.check_in_time, e2.utcoffset)
                  - Instant(e1.check_in_time, e1.utcoffset) >= FACILITY_MINUTES * Minute

(* C21: the windows of a scan are measured from the check-in time of the most *)
(* recent event of the member at the facility, which only a Recorded scan     *)
(* writes: whatever was Ignored or answered TooSoon since, a scan with a      *)
(* timestamp at or after that check-in time plus 30 minutes is Recorded.      *)
C21_WaitNotExtended ==
    [][ (req'.op = "scan" /\ req'.loc # None) =>
          LET fac == (CHOOSE l \in locations : l.id = req'.loc).facility_id
              evs == EventsOf(attendance, req'.member, fac)
          IN \A e \in evs :
                (\A o \in evs : o.check_in_time <= e.check_in_time) =>
                   /\ req'.last = e.check_in_time
                   /\ req'.ts >= e.check_in_time + FACILITY_MINUTES * Minute =>
                         /\ resp'.status = "ok"
                         /\ Cardinality(attendance') = Cardinality(attendance) + 1 ]_vars

(* C22: a scan whose effective timestamp lies before the check-in time of the *)
(* most recent event of the member at the facility is Ignored and appends     *)
(* nothing, so every event appended for a member at a facility has a check-in *)
(* time after those of all the events the pair already has.                   *)
C22_BackdatedIgnored ==
    [][ (req'.op = "scan" /\ req'.loc # None) =>
          LET fac == (CHOOSE l \in locations : l.id = req'.loc).facility_id
              evs == EventsOf(attendance, req'.member, fac)
              at == Instant(req'.ts, req'.tz)
          IN /\ (\E o \in evs : at < Instant(o.check_in_time, o.utcoffset)) =>
                   /\ resp'.status = "ignored"
                   /\ attendance' = attendance
             /\ \A e \in attendance' \ attendance :
                   \A o \in evs :
                      Instant(o.check_in_time, o.utcoffset)
                         < Instant(e.check_in_time, e.utcoffset) ]_vars

(* C23: POST /admin/facilities stores all of its rows or none: answered 409   *)
(* (the facility id is taken, or a location with the id or the scan code of   *)
(* the requested location exists) it leaves facilities and locations as they  *)
(* were, the facility row inserted before the location check included; only  *)
(* a request answered 200 stores the facility, with its location if asked.    *)
C23_AllOrNothing ==
    [][ (req'.op = "create_facility") =>
          /\ resp'.http # 200 => (facilities' = facilities /\ locations' = locations)
          /\ resp'.detail = "Location or QR already exists" =>
                /\ resp'.http = 409
                /\ \A f \in facilities' : f \in facilities
          /\ resp'.detail = "Facility already exists" => resp'.http = 409
          /\ resp'.http = 200 =>
                /\ \E f \in facilities' \ facilities :
                      /\ f.id = resp'.facility_id
                      /\ facilities' = facilities \cup {f}
                /\ IF resp'.location_id = None
                   THEN locations' = locations
                   ELSE \E l \in locations' \ locations :
                           /\ l.id = resp'.location_id
                           /\ l.facility_id = resp'.facility_id
                           /\ locations' = locations \cup {l} ]_vars

C23_Witness ==
    /\ req.op = "create_facility"
    /\ resp.http = 409
    /\ resp.detail = "Location or QR already exists"
    /\ \A f \in facilities : f.id # "FAC_SALINE_BJJ"
    /\ \E l \in locations : l.qr_value = Findlay
    /\ facilities # {}

(* C24: the answer to a scan and the change it makes to the ledger are        *)
(* determined by the members, the locations, the ledger and the payload; the  *)
(* active flag of the facility is not read, so the same scan gives the same   *)
(* outcome whether the facility of the scanned location is active or not, and *)
(* a scan at a location of a deactivated facility is recorded.                *)
C24_FacilityFlagIgnored ==
    [][ (req'.op = "scan" /\ req'.member # NoMember /\ req'.active = 1) =>
          LET raw == {l \in locations : l.qr_value = req'.qr}
              norm == {l \in locations : l.qr_value = normalize_qr_value(req'.qr)}
              found == IF raw # {} THEN raw ELSE norm
          IN /\ found = {} => (resp'.http = 400 /\ attendance' = attendance)
             /\ found # {} =>
                   \E loc \in found :
                      LET last == LastCheckIn(attendance, req'.member, loc.facility_id)
                          last_tz == LastZone(attendance, req'.member, loc.facility_id)
                          row == NewEvent(req'.ts, req'.tz, req'.member, loc)
                          decision == Decide(last, last_tz, req'.ts, req'.tz)
                      IN /\ req'.loc = loc.id
                         /\ resp' = ScanResponse(attendance, decision, row, last, last_tz)
                         /\ attendance' = LedgerAfter(attendance, decision, row)
                         /\ (decision = "ok" /\ ~AttendanceKeyViolation(attendance, row))
                               => (resp'.status = "ok" /\ row \in attendance') ]_vars

C24_Witness ==
    /\ req.op = "scan"
    /\ resp.status = "ok"
    /\ \E e \in attendance :
          /\ e.id = resp.attendance_id
          /\ \E f \in facilities : f.id = e.facility_id /\ f.active = 0
    /\ Cardinality(attendance) = 2

====
